---- MODULE Spec2Model ----
(***************************************************************************)
(* Model of worldql_server's sharded persistence layer                     *)
(* (src/src/database/client.rs): DatabaseClient::insert_records,           *)
(* DatabaseClient::insert_record and DatabaseClient::get_records_in_region *)
(* run by engine instances against a relational backing store.             *)
(*                                                                         *)
(* Every `.await` of the source is one step of the calling client, so two  *)
(* clients connected to the same store interleave between statements.      *)
(* The backing store, the world-region registry, lookup_ids,               *)
(* sanitize_world_name and the query builders are not part of              *)
(* src/src/database/client.rs; they are modelled from the design document. *)
(*                                                                         *)
(* Further specifications of the module:                                   *)
(*   SpecResolve  lookup_ids and the two LRU caches of DatabaseClient::new  *)
(*   SpecArea     the area subscription index (subscriptions/area_map.rs)  *)
(*   SpecNet      the incoming loop (transport/zeromq_incoming.rs) with    *)
(*                the peer-map lock and the consumers of its two channels  *)
(***************************************************************************)
EXTENDS Integers, Sequences, FiniteSets, Bags, TLC

\* ------------------------------------------------------------------ bounds
\* Total number of records handed to insert_records / insert_record.
MaxRecords == 3
\* Total number of failures the backing store raises besides the ones its
\* own state calls for ("relation missing", "relation already exists").
MaxFaults == 1
\* Total number of get_records_in_region calls.
MaxQueries == 1
\* Number of insert_record / one-record insert_records pairs compared.
MaxRounds == 2
\* Number of direct lookup_ids calls.
MaxResolves == 4
\* Number of frames the pull socket yields.
MaxMsgs == 3
\* Capacity of the message channel and of the handshake channel.
ChanCap == 1

\* ----------------------------------------------------------- configuration
region_x_size == 2
region_y_size == 2
region_z_size == 2
table_size == 3
cache_size == 2

\* cache_size each instance is constructed with when the resolver is exercised
\* on its own: "a" with the bounded caches, "b" with cache_size = 0.
cache_sizes == [c \in {"a", "b"} |-> IF c = "a" THEN cache_size ELSE 0]

\* Engine instances and the backing stores they can be connected to.
Clients == {"a", "b"}
Stores == {"db1", "db2"}

\* ------------------------------------------------------------------- data
NoKey == <<"none", -1>>

Rec(w, p, u) == [world_name |-> w, position |-> p, uuid |-> u,
                 data |-> "blob", flex |-> IF u = 2 THEN "flex" ELSE "none"]

\* Records a caller can submit: two in one region, one in another region of the
\* same world, one in another world, one with a malformed world name.
RecordPool ==
    { Rec("w1", <<0, 0, 0>>, 1), Rec("w1", <<1, 1, 0>>, 2),
      Rec("w1", <<2, -1, 0>>, 3), Rec("w2", <<0, 0, 0>>, 4),
      Rec("b@d", <<0, 0, 0>>, 5) }

QueryWorlds == {"w1"}
QueryPoints == {<<1, 0, 1>>, <<3, -2, 0>>}

Range(s) == {s[i] : i \in DOMAIN s}

SeqToBag(s) == [e \in Range(s) |-> Cardinality({i \in DOMAIN s : s[i] = e})]

RECURSIVE SeqsUpTo(_, _)
SeqsUpTo(S, n) ==
    IF n = 0 THEN {<<>>}
    ELSE LET shorter == SeqsUpTo(S, n - 1)
         IN shorter \cup {Append(s, e) : s \in {t \in shorter : Len(t) = n - 1}, e \in S}

\* Answers of the backing store to one statement.
Faults == {"none", "db_other", "io"}
IsError(resp) == resp # "ok"

\* --------------------------------------------------------------- variables
VARIABLES
    tables,        \* tables[d]: shard tables (world_name, TableSuffix) existing in store d
    indexes,       \* indexes[d]: shard tables of store d that have their RegionId index
    rows,          \* rows[d]: bag of the rows stored in store d
    registry,      \* registry[d]: WorldRegion -> RegionId, the world-region registry
    conn,          \* conn[c]: the store client c is connected to (DatabaseClient.client)
    table_cache,   \* table_cache[c]: LRU, least recently used first
    region_cache,  \* region_cache[c]
    pc,            \* pc[c]: the statement client c executes next
    call,          \* call[c]: operation and arguments of the current call
    idx,           \* idx[c]: index of the next record of the batch to divide up
    table_map,     \* table_map[c]: (world_name, TableSuffix) -> (count, params)
    todo,          \* todo[c]: groups of table_map not yet visited by the second loop
    cur,           \* cur[c]: the group being inserted, with query and params
    errors,        \* errors[c]: the failure list built by insert_records
    result,        \* result[c]: value returned by insert_record / get_records_in_region
    log,           \* log[c]: statements issued to the store by the current call, with answers
    placed,        \* placed[c][i]: what became of record i of the batch
    acked,         \* acked[d]: bag of the records a returned insert reported no failure for
    nrec, nfault, nquery,   \* budget used
    script, round  \* answers shared by the two calls compared in SpecEquiv

dbvars == <<tables, indexes, rows, registry>>
cachevars == <<table_cache, region_cache>>
loopvars == <<idx, table_map, todo, cur, errors, placed>>
budget == <<nrec, nquery>>

\* The region resolver and its caches (DatabaseClient::new, lookup_ids).
VARIABLES
    capacity,      \* capacity[c]: capacity both LRU caches of client c were built with
    uses,          \* uses[c]: the WorldRegions client c resolved, in order
    assigned,      \* assigned[d]: WorldRegion -> the ids first returned for it on store d
    resolved,      \* the outcome of the latest lookup_ids call
    nres           \* number of lookup_ids calls made directly

\* The area subscription index of one world (subscriptions/area_map.rs).
VARIABLES
    area_map,      \* AreaMap.map: CubeArea -> set of peers, defined on the cells present
    last_op,       \* the latest operation on the index, its result and the index before it
    subs           \* the (peer, CubeArea) memberships asked for and not withdrawn since

\* The incoming transport loop (transport/zeromq_incoming.rs) and its consumers.
VARIABLES
    peer_map,      \* uuids of the connected peers (keys of PeerMap)
    lock,          \* the RwLock around PeerMap: readers, writer, tasks waiting to write
    msg_ch,        \* messages in flight on msg_tx / msg_rx
    handshake_ch,  \* messages in flight on handshake_tx / handshake_rx
    task,          \* task[t]: the statement task t executes next
    held,          \* held[t]: the message task t works on
    routed,        \* the latest frame handled: whether its sender was known, where it was sent
    nmsg           \* number of messages pulled from the socket

resolvevars == <<capacity, uses, assigned, resolved, nres>>
areavars == <<area_map, last_op, subs>>
netvars == <<peer_map, lock, msg_ch, handshake_ch, task, held, routed, nmsg>>
extvars == <<resolvevars, areavars, netvars>>
corevars == <<tables, indexes, rows, registry, conn, table_cache, region_cache, pc, call,
              idx, table_map, todo, cur, errors, result, log, placed, acked,
              nrec, nfault, nquery, script, round>>
vars == <<corevars, extvars>>

\* ------------------------------------------------- collaborators (from spec)
\* crate::utils::sanitize_world_name: a validation of the name.
IsValidWorldName(w) == w \in {"w1", "w2"}

FloorDiv(a, b) == a \div b

\* WorldRegion of a position: each axis floor-divided by the region extent.
WorldRegionOf(w, p) ==
    <<w, FloorDiv(p[1], region_x_size), FloorDiv(p[2], region_y_size),
      FloorDiv(p[3], region_z_size)>>

TableSuffixOf(region_id) == region_id \div table_size

\* LRU cache as a sequence of <<key, value>>, most recently used last.
LruHas(cache, k) == \E i \in DOMAIN cache : cache[i][1] = k
LruValue(cache, k) == (CHOOSE i \in DOMAIN cache : cache[i][1] = k)
LruWithout(cache, k) == SelectSeq(cache, LAMBDA e : e[1] # k)
LruGet(cache, k) ==
    IF LruHas(cache, k)
    THEN Append(LruWithout(cache, k), cache[LruValue(cache, k)])
    ELSE cache
LruPeek(cache, k) == cache[LruValue(cache, k)][2]
LruPut(cache, k, v, cap) ==
    LET rest == LruWithout(cache, k)
        room == IF cap.bounded /\ Len(rest) >= cap.size THEN Tail(rest) ELSE rest
    IN Append(room, <<k, v>>)

\* (mutant) every registry lookup hands out a fresh id
RegistryId_AlwaysFresh(d, region) == Cardinality(DOMAIN registry[d]) + 1

\* Registry find-or-create: the id already assigned, or the next fresh one.
RegistryId(d, region) ==
    IF region \in DOMAIN registry[d] THEN registry[d][region]
    ELSE Cardinality(DOMAIN registry[d]) + 1
RegistryWith(d, region) ==
    IF region \in DOMAIN registry[d] THEN registry[d]
    ELSE [r \in DOMAIN registry[d] \cup {region} |->
            IF r = region THEN Cardinality(DOMAIN registry[d]) + 1 ELSE registry[d][r]]

\* lookup_ids(world_name, position): the outcome of resolving for client c when
\* the registry answers f. [hit, ok, table_suffix, region_id].
LookupIds(c, w, p, f) ==
    LET region == WorldRegionOf(w, p)
        hit == LruHas(table_cache[c], region) /\ LruHas(region_cache[c], region)
        id == IF hit THEN LruPeek(region_cache[c], region) ELSE RegistryId(conn[c], region)
        suffix == IF hit THEN LruPeek(table_cache[c], region) ELSE TableSuffixOf(id)
    IN [region |-> region, hit |-> hit, ok |-> hit \/ f = "none",
        table_suffix |-> suffix, region_id |-> id]

\* The effect of lookup_ids on the caches and on the registry.
LookupEffect(c, lk) ==
    IF lk.hit
    THEN /\ table_cache' = [table_cache EXCEPT ![c] = LruGet(@, lk.region)]
         /\ region_cache' = [region_cache EXCEPT ![c] = LruGet(@, lk.region)]
         /\ UNCHANGED registry
    ELSE IF lk.ok
    THEN /\ registry' = [registry EXCEPT ![conn[c]] = RegistryWith(conn[c], lk.region)]
         /\ table_cache' = [table_cache EXCEPT ![c] =
                               LruPut(LruGet(@, lk.region), lk.region, lk.table_suffix,
                                      capacity[c])]
         /\ region_cache' = [region_cache EXCEPT ![c] =
                               LruPut(LruGet(@, lk.region), lk.region, lk.region_id,
                                      capacity[c])]
    ELSE /\ table_cache' = [table_cache EXCEPT ![c] = LruGet(@, lk.region)]
         /\ region_cache' = [region_cache EXCEPT ![c] = LruGet(@, lk.region)]
         /\ UNCHANGED registry

\* The statement log after a lookup: a cache hit performs no I/O.
LookupLog(c, lk, f) ==
    IF lk.hit THEN log[c]
    ELSE Append(log[c], [stmt |-> "lookup", key |-> lk.region,
                         resp |-> IF f = "none" THEN "ok" ELSE f])

\* ------------------------------------------------------- the backing store
\* What the store answers to a statement when nothing else goes wrong.
InsertAnswer(d, key) == IF key \in tables[d] THEN "ok" ELSE "undefined_table"
CreateTableAnswer(d, key) == IF key \in tables[d] THEN "duplicate_table" ELSE "ok"
CreateIndexAnswer(d, key) ==
    IF key \notin tables[d] THEN "undefined_table"
    ELSE IF key \in indexes[d] THEN "duplicate_table" ELSE "ok"
SelectAnswer(d, key) == IF key \in tables[d] THEN "ok" ELSE "undefined_table"

\* The answer when the store raises f instead.
Answer(natural, f) == IF f = "none" THEN natural ELSE f

\* The rows a multi-row insert of params into table key adds.
StoredRows(key, params) ==
    SeqToBag([i \in DOMAIN params |->
        [tbl |-> key, region_id |-> params[i].region_id,
         x |-> params[i].x, y |-> params[i].y, z |-> params[i].z,
         uuid |-> params[i].uuid, data |-> params[i].data, flex |-> params[i].flex]])

StoreInsert(d, key, params, resp) ==
    rows' = IF resp = "ok" THEN [rows EXCEPT ![d] = @ (+) StoredRows(key, params)] ELSE rows
StoreCreateTable(d, key, resp) ==
    tables' = IF resp = "ok" THEN [tables EXCEPT ![d] = @ \cup {key}] ELSE tables
StoreCreateIndex(d, key, resp) ==
    indexes' = IF resp = "ok" THEN [indexes EXCEPT ![d] = @ \cup {key}] ELSE indexes

\* Rows of table key with the given RegionId (query_select_records).
SelectedRows(d, key, region_id) ==
    LET hits == {r \in BagToSet(rows[d]) : r.tbl = key /\ r.region_id = region_id}
    IN [r \in hits |-> rows[d][r]]

\* Record::from_postgres_row(row, world_name)
FromPostgresRow(row, world_name) ==
    [world_name |-> world_name, position |-> <<row.x, row.y, row.z>>,
     uuid |-> row.uuid, data |-> row.data, flex |-> row.flex]

RECURSIVE BagMap(_, _, _)
BagMap(bag, todoSet, w) ==
    IF todoSet = {} THEN EmptyBag
    ELSE LET r == CHOOSE x \in todoSet : TRUE
         IN [e \in {FromPostgresRow(r, w)} |-> bag[r]] (+) BagMap(bag, todoSet \ {r}, w)

RowsToRecords(bag, w) == BagMap(bag, BagToSet(bag), w)

\* ------------------------------------------------ subscription index: data
\* AreaMap.cube_size
cube_size == 4

\* Peer identities (Uuid).
Peers == {"p1", "p2"}

\* Positions handed to the index: two in one cube, one in each of two others.
AreaPoints == {<<0, 0, 0>>, <<3, 3, 3>>, <<4, 0, 0>>, <<-1, 0, 0>>}

\* ToCubeArea::to_cube_area(cube_size): each axis floor-divided by cube_size.
ToCubeArea(p, size) == <<FloorDiv(p[1], size), FloorDiv(p[2], size), FloorDiv(p[3], size)>>

\* AreaMap::new: no cell is present.
EmptyAreaMap == [k \in {} |-> {}]
NoOp == [name |-> "none", uuid |-> "none", cube |-> <<0, 0, 0>>, ret |-> FALSE,
         before |-> EmptyAreaMap]

\* ------------------------------------------------------- transport: data
Tasks == {"incoming", "processing", "handshake"}
Instructions == {"Handshake", "GlobalMessage", "AreaSubscribe"}

\* What the pull socket yields: a frame that deserializes to a Message of a
\* sender, an instruction and an optional parameter, or one that does not.
Message(sender, instruction, parameter) ==
    [valid |-> TRUE, sender |-> sender, instruction |-> instruction, parameter |-> parameter]
Garbage == [valid |-> FALSE, sender |-> "none", instruction |-> "none", parameter |-> FALSE]
NoMessage == [valid |-> FALSE, sender |-> "none", instruction |-> "idle", parameter |-> FALSE]
NoRoute == [frame |-> NoMessage, known |-> FALSE, to |-> "none"]
Frames ==
    {Message(p, i, q) : p \in Peers, i \in Instructions, q \in BOOLEAN} \cup {Garbage}

\* ------------------------------------------------------- DatabaseClient::new
\* (mutant) the caches are built unbounded whatever cache_size is
NewCapacity_Unbounded(size) == [bounded |-> FALSE, size |-> size]

\* The capacity of table_cache and region_cache (lines 38-42): cache_size = 0
\* builds LruCache::unbounded(), any other LruCache::new(cache_size).
NewCapacity(size) == [bounded |-> size # 0, size |-> size]

\* ------------------------------------------------------------------- Init
NoResolve == [client |-> "none", input |-> <<"", <<0, 0, 0>>>>, region |-> <<"", 0, 0, 0>>,
              hit |-> FALSE, ok |-> FALSE, io |-> FALSE, table_suffix |-> 0, region_id |-> 0]
NoneAssigned == [r \in {} |-> [input |-> <<"", <<0, 0, 0>>>>, table_suffix |-> 0, region_id |-> 0]]
NoCall == [op |-> "none", records |-> <<>>, world_name |-> "", point |-> <<0, 0, 0>>]
NoCur == [key |-> NoKey, params |-> <<>>]
NoResult == [ok |-> TRUE, err |-> "none", records |-> EmptyBag]
EmptyMap == [k \in {} |-> [count |-> 0, params |-> <<>>]]

InitCommon ==
    /\ tables = [d \in Stores |-> {}]
    /\ indexes = [d \in Stores |-> {}]
    /\ rows = [d \in Stores |-> EmptyBag]
    /\ registry = [d \in Stores |-> [r \in {} |-> 0]]
    /\ table_cache = [c \in Clients |-> <<>>]
    /\ region_cache = [c \in Clients |-> <<>>]
    /\ pc = [c \in Clients |-> "idle"]
    /\ call = [c \in Clients |-> NoCall]
    /\ idx = [c \in Clients |-> 1]
    /\ table_map = [c \in Clients |-> EmptyMap]
    /\ todo = [c \in Clients |-> {}]
    /\ cur = [c \in Clients |-> NoCur]
    /\ errors = [c \in Clients |-> <<>>]
    /\ result = [c \in Clients |-> NoResult]
    /\ log = [c \in Clients |-> <<>>]
    /\ placed = [c \in Clients |-> <<>>]
    /\ acked = [d \in Stores |-> EmptyBag]
    /\ nrec = 0 /\ nfault = 0 /\ nquery = 0
    /\ script = <<>> /\ round = 0
    /\ uses = [c \in Clients |-> <<>>]
    /\ assigned = [d \in Stores |-> NoneAssigned]
    /\ resolved = NoResolve
    /\ nres = 0
    /\ area_map = EmptyAreaMap
    /\ last_op = NoOp
    /\ subs = {}
    /\ peer_map = {}
    /\ lock = [readers |-> {}, writer |-> "none", waiting |-> {}]
    /\ msg_ch = <<>>
    /\ handshake_ch = <<>>
    /\ task = [t \in Tasks |-> "idle"]
    /\ held = [t \in Tasks |-> NoMessage]
    /\ routed = NoRoute
    /\ nmsg = 0

\* Two engine instances on the same backing store.
Init ==
    /\ InitCommon
    /\ conn = [c \in Clients |-> "db1"]
    /\ capacity = [c \in Clients |-> NewCapacity(cache_size)]

\* ------------------------------------------------------- insert_records
\* A returned call is taken by its caller (Forget) before another instance of the
\* same store takes its next step: Forget changes nothing the instances share, so
\* no interleaving of their statements is lost.
Blocked(c) == \E o \in Clients \ {c} : pc[o] = "done" /\ conn[o] = conn[c]
Running(c, label) == pc[c] = label /\ ~Blocked(c)
Idle(c) == Running(c, "idle")

\* The store raises failure f (or none) on the statement of this step. Only the
\* answer to the first insert is inspected for being a database error at all.
\* "inject": any statement may fail, MaxFaults times in all.
\* "script": the failures are those of `script`, which the first call to reach
\* its n-th statement extends and the other call then follows.
FaultStep(c, f, m) ==
    /\ f = "io" => pc[c] \in {"groups", "s_insert"}
    /\ IF m = "inject"
       THEN /\ f # "none" => nfault < MaxFaults
            /\ nfault' = IF f = "none" THEN nfault ELSE nfault + 1
            /\ UNCHANGED <<script, round>>
       ELSE /\ IF log'[c] = log[c] THEN f = "none" /\ UNCHANGED script
               ELSE IF Len(log'[c]) <= Len(script)
               THEN f = script[Len(log'[c])] /\ UNCHANGED script
               ELSE script' = Append(script, f)
            /\ UNCHANGED <<nfault, round>>
    /\ UNCHANGED extvars

StartCall(c, op, records, w, point, first) ==
    /\ call' = [call EXCEPT ![c] =
          [op |-> op, records |-> records, world_name |-> w, point |-> point]]
    /\ pc' = [pc EXCEPT ![c] = first]
    /\ idx' = [idx EXCEPT ![c] = 1]
    /\ table_map' = [table_map EXCEPT ![c] = EmptyMap]
    /\ todo' = [todo EXCEPT ![c] = {}]
    /\ cur' = [cur EXCEPT ![c] = NoCur]
    /\ errors' = [errors EXCEPT ![c] = <<>>]
    /\ result' = [result EXCEPT ![c] = NoResult]
    /\ log' = [log EXCEPT ![c] = <<>>]
    /\ placed' = [placed EXCEPT ![c] = <<>>]
    /\ UNCHANGED extvars

\* A caller hands a batch to insert_records.
CallInsertRecords(c) ==
    /\ Idle(c)
    /\ nrec < MaxRecords
    /\ \E batch \in SeqsUpTo(RecordPool, MaxRecords - nrec) :
         /\ batch # <<>>
         /\ StartCall(c, "insert_records", batch, "", <<0, 0, 0>>, "divide")
         /\ nrec' = nrec + Len(batch)
    /\ UNCHANGED <<dbvars, conn, cachevars, acked, nfault, nquery, script, round>>

\* One parameter row of the multi-row insert (lines 115-121).
ParamsOf(record, region_id) ==
    [region_id |-> region_id,
     x |-> record.position[1], y |-> record.position[2], z |-> record.position[3],
     uuid |-> record.uuid, data |-> record.data, flex |-> record.flex]

\* (mutant) table_map.insert(key, ..) in place of entry(key).or_default()
GroupInto_Overwrite(map, key, row) ==
    [k \in DOMAIN map \cup {key} |->
        IF k = key THEN [count |-> 1, params |-> <<row>>] ELSE map[k]]

\* table_map.entry(key).or_default(), count += 1, params.push(...)
GroupInto(map, key, row) ==
    LET old == IF key \in DOMAIN map THEN map[key] ELSE [count |-> 0, params |-> <<>>]
    IN [k \in DOMAIN map \cup {key} |->
          IF k = key THEN [count |-> old.count + 1, params |-> Append(old.params, row)]
          ELSE map[k]]

Failure(kind, resp, src) == [kind |-> kind, resp |-> resp, src |-> src]

\* (mutant) errors.push(..); break
AfterRecordError_Break(c, i) == "groups"

\* What the first loop does after a record failed: errors.push(..); continue
AfterRecordError(c, i) ==
    IF i = Len(call[c].records) THEN "groups" ELSE "divide"

\* First loop, one record: sanitize, lookup_ids, group (lines 91-122).
DivideRecord(c, f, m) ==
    /\ Running(c, "divide")
    /\ LET i == idx[c]
           record == call[c].records[i]
           valid == IsValidWorldName(record.world_name)
           lk == LookupIds(c, record.world_name, record.position, f)
           key == <<record.world_name, lk.table_suffix>>
           last == i = Len(call[c].records)
       IN /\ IF ~valid
             THEN /\ f = "none"
                  /\ errors' = [errors EXCEPT ![c] =
                        Append(@, Failure("InvalidWorldName", "none", <<"record", i>>))]
                  /\ placed' = [placed EXCEPT ![c] = Append(@, [outcome |-> "invalid_name", key |-> NoKey])]
                  /\ pc' = [pc EXCEPT ![c] = AfterRecordError(c, i)]
                  /\ UNCHANGED <<table_map, log, cachevars, registry>>
             ELSE /\ lk.hit => f = "none"
                  /\ LookupEffect(c, lk)
                  /\ log' = [log EXCEPT ![c] = LookupLog(c, lk, f)]
                  /\ IF ~lk.ok
                     THEN /\ errors' = [errors EXCEPT ![c] =
                                Append(@, Failure("PostgresError", f, <<"record", i>>))]
                          /\ placed' = [placed EXCEPT ![c] = Append(@, [outcome |-> "lookup_failed", key |-> NoKey])]
                          /\ pc' = [pc EXCEPT ![c] = AfterRecordError(c, i)]
                          /\ UNCHANGED table_map
                     ELSE /\ table_map' = [table_map EXCEPT ![c] =
                                GroupInto(@, key, ParamsOf(record, lk.region_id))]
                          /\ placed' = [placed EXCEPT ![c] = Append(@, [outcome |-> "grouped", key |-> key])]
                          /\ pc' = [pc EXCEPT ![c] = IF last THEN "groups" ELSE "divide"]
                          /\ UNCHANGED errors
          /\ idx' = [idx EXCEPT ![c] = i + 1]
          /\ todo' = [todo EXCEPT ![c] = IF pc'[c] = "groups" THEN DOMAIN table_map'[c] ELSE {}]
    /\ UNCHANGED <<tables, indexes, rows, conn, call, cur, result, budget, acked>>
    /\ FaultStep(c, f, m)

\* (mutant) an error that is no database error is dropped
InsertOutcome_Swallow(resp) ==
    IF resp = "ok" THEN "continue"
    ELSE IF resp = "io" THEN "continue"
    ELSE IF resp # "undefined_table" THEN "rethrow"
    ELSE "create"

\* (mutant) the error code is not compared with UNDEFINED_TABLE
InsertOutcome_AlwaysCreate(resp) ==
    IF resp = "ok" THEN "continue"
    ELSE IF resp = "io" THEN "rethrow"
    ELSE "create"

\* Classification of the answer to the first insert of a group (lines 133-152).
InsertOutcome(resp) ==
    IF resp = "ok" THEN "continue"
    ELSE IF resp = "io" THEN "rethrow"
    ELSE IF resp # "undefined_table" THEN "rethrow"
    ELSE "create"

\* Second loop, first statement of a group: the bulk insert (lines 124-152).
ExecInsert(c, f, m) ==
    /\ Running(c, "groups")
    /\ \E key \in todo[c] :
         LET params == table_map[c][key].params
             resp == Answer(InsertAnswer(conn[c], key), f)
             what == InsertOutcome(resp)
         IN /\ StoreInsert(conn[c], key, params, resp)
            /\ log' = [log EXCEPT ![c] = Append(@, [stmt |-> "insert", key |-> key, resp |-> resp])]
            /\ todo' = [todo EXCEPT ![c] = @ \ {key}]
            /\ errors' = [errors EXCEPT ![c] =
                  IF what = "rethrow"
                  THEN Append(@, Failure("PostgresError", resp, <<"group", key>>)) ELSE @]
            /\ cur' = [cur EXCEPT ![c] =
                  IF what = "create" THEN [key |-> key, params |-> params] ELSE NoCur]
            /\ pc' = [pc EXCEPT ![c] = IF what = "create" THEN "create_table" ELSE "groups"]
    /\ UNCHANGED <<tables, indexes, registry, conn, cachevars, call, idx, table_map,
                   result, placed, budget, acked>>
    /\ FaultStep(c, f, m)

\* (mutant) the result of create-table is not looked at
AfterCreateTable_Ignore(resp) == "create_index"

\* Where a group goes after the answer to create-table / create-index / retry:
\* an error is pushed and the group is abandoned (lines 160-163, 171-174, 178-181).
AfterCreateTable(resp) == IF IsError(resp) THEN "groups" ELSE "create_index"
AfterCreateIndex(resp) == IF IsError(resp) THEN "groups" ELSE "retry"
AfterRetry(resp) == "groups"

RemediationStep(c, stmt, resp, next) ==
    /\ log' = [log EXCEPT ![c] = Append(@, [stmt |-> stmt, key |-> cur[c].key, resp |-> resp])]
    /\ errors' = [errors EXCEPT ![c] =
          IF IsError(resp)
          THEN Append(@, Failure("PostgresError", resp, <<"group", cur[c].key>>)) ELSE @]
    /\ pc' = [pc EXCEPT ![c] = next]
    /\ cur' = [cur EXCEPT ![c] = IF next = "groups" THEN NoCur ELSE @]

\* Create table for world region (lines 154-163).
ExecCreateTable(c, f, m) ==
    /\ Running(c, "create_table")
    /\ LET resp == Answer(CreateTableAnswer(conn[c], cur[c].key), f)
       IN /\ StoreCreateTable(conn[c], cur[c].key, resp)
          /\ RemediationStep(c, "create_table", resp, AfterCreateTable(resp))
    /\ UNCHANGED <<indexes, rows, registry, conn, cachevars, call, idx, table_map, todo,
                   result, placed, budget, acked>>
    /\ FaultStep(c, f, m)

\* Create index for new table (lines 165-174).
ExecCreateIndex(c, f, m) ==
    /\ Running(c, "create_index")
    /\ LET resp == Answer(CreateIndexAnswer(conn[c], cur[c].key), f)
       IN /\ StoreCreateIndex(conn[c], cur[c].key, resp)
          /\ RemediationStep(c, "create_index", resp, AfterCreateIndex(resp))
    /\ UNCHANGED <<tables, rows, registry, conn, cachevars, call, idx, table_map, todo,
                   result, placed, budget, acked>>
    /\ FaultStep(c, f, m)

\* Retry insertion (lines 176-181).
ExecRetry(c, f, m) ==
    /\ Running(c, "retry")
    /\ LET resp == Answer(InsertAnswer(conn[c], cur[c].key), f)
       IN /\ StoreInsert(conn[c], cur[c].key, cur[c].params, resp)
          /\ RemediationStep(c, "insert", resp, AfterRetry(resp))
    /\ UNCHANGED <<tables, indexes, registry, conn, cachevars, call, idx, table_map, todo,
                   result, placed, budget, acked>>
    /\ FaultStep(c, f, m)

\* The records of the batch no entry of the returned failure list stands for:
\* those grouped into a table whose insertion pushed no error.
Confirmed(c) ==
    LET good == {i \in DOMAIN placed[c] :
                    /\ placed[c][i].outcome = "grouped"
                    /\ \A j \in DOMAIN errors[c] :
                          errors[c][j].src # <<"group", placed[c][i].key>>}
    IN [r \in {call[c].records[i] : i \in good} |->
          Cardinality({i \in good : call[c].records[i] = r})]

\* The second loop is over: `errors` is returned (line 184).
ReturnErrors(c) ==
    /\ Running(c, "groups")
    /\ todo[c] = {}
    /\ pc' = [pc EXCEPT ![c] = "done"]
    /\ acked' = [acked EXCEPT ![conn[c]] = @ (+) Confirmed(c)]
    /\ UNCHANGED <<dbvars, conn, cachevars, call, loopvars, result, log,
                   nrec, nfault, nquery, script, round, extvars>>

\* --------------------------------------------------------- insert_record
CallInsertRecord(c) ==
    /\ Idle(c)
    /\ nrec < MaxRecords
    /\ \E record \in RecordPool :
         StartCall(c, "insert_record", <<record>>, "", <<0, 0, 0>>, "s_lookup")
    /\ nrec' = nrec + 1
    /\ UNCHANGED <<dbvars, conn, cachevars, acked, nfault, nquery, script, round>>

Ok == [ok |-> TRUE, err |-> "none", records |-> EmptyBag]
Err(e) == [ok |-> FALSE, err |-> e, records |-> EmptyBag]

\* sanitize_world_name(..)? and lookup_ids(..).await? (lines 191-195).
SingleLookup(c, f, m) ==
    /\ Running(c, "s_lookup")
    /\ LET record == call[c].records[1]
           valid == IsValidWorldName(record.world_name)
           lk == LookupIds(c, record.world_name, record.position, f)
       IN IF ~valid
          THEN /\ f = "none"
               /\ result' = [result EXCEPT ![c] = Err("InvalidWorldName")]
               /\ pc' = [pc EXCEPT ![c] = "done"]
               /\ UNCHANGED <<cur, log, cachevars, registry>>
          ELSE /\ lk.hit => f = "none"
               /\ LookupEffect(c, lk)
               /\ log' = [log EXCEPT ![c] = LookupLog(c, lk, f)]
               /\ IF ~lk.ok
                  THEN /\ result' = [result EXCEPT ![c] = Err(f)]
                       /\ pc' = [pc EXCEPT ![c] = "done"]
                       /\ UNCHANGED cur
                  ELSE /\ cur' = [cur EXCEPT ![c] =
                             [key |-> <<record.world_name, lk.table_suffix>>,
                              params |-> <<ParamsOf(record, lk.region_id)>>]]
                       /\ pc' = [pc EXCEPT ![c] = "s_insert"]
                       /\ UNCHANGED result
    /\ UNCHANGED <<tables, indexes, rows, conn, call, idx, table_map, todo, errors,
                   placed, budget, acked>>
    /\ FaultStep(c, f, m)

\* (mutant) the single-record variant does not tell a non-database error apart
SingleInsertOutcome_NoDbErrorCheck(resp) ==
    IF resp = "ok" THEN "return_ok"
    ELSE IF resp \notin {"undefined_table", "io"} THEN "return_err"
    ELSE "create"

\* Classification of the answer to the first insert (lines 213-231).
SingleInsertOutcome(resp) ==
    IF resp = "ok" THEN "return_ok"
    ELSE IF resp = "io" THEN "return_err"
    ELSE IF resp # "undefined_table" THEN "return_err"
    ELSE "create"

\* One statement of insert_record: its answer is logged; with `next` = "done"
\* the call returns Ok or the error.
SingleStep(c, stmt, resp, next) ==
    /\ log' = [log EXCEPT ![c] = Append(@, [stmt |-> stmt, key |-> cur[c].key, resp |-> resp])]
    /\ pc' = [pc EXCEPT ![c] = next]
    /\ result' = [result EXCEPT ![c] =
          IF next # "done" THEN @ ELSE IF IsError(resp) THEN Err(resp) ELSE Ok]
    /\ acked' = [acked EXCEPT ![conn[c]] =
          IF next = "done" /\ ~IsError(resp) THEN @ (+) SeqToBag(call[c].records) ELSE @]

\* The single-row insert (lines 197-231).
SingleInsert(c, f, m) ==
    /\ Running(c, "s_insert")
    /\ LET resp == Answer(InsertAnswer(conn[c], cur[c].key), f)
           what == SingleInsertOutcome(resp)
       IN /\ StoreInsert(conn[c], cur[c].key, cur[c].params, resp)
          /\ SingleStep(c, "insert", resp, IF what = "create" THEN "s_create_table" ELSE "done")
    /\ UNCHANGED <<tables, indexes, registry, conn, cachevars, call, loopvars, budget>>
    /\ FaultStep(c, f, m)

\* `?` after create-table and create-index (lines 233-241).
SingleAfterCreateTable(resp) == IF IsError(resp) THEN "done" ELSE "s_create_index"
SingleAfterCreateIndex(resp) == IF IsError(resp) THEN "done" ELSE "s_retry"

SingleCreateTable(c, f, m) ==
    /\ Running(c, "s_create_table")
    /\ LET resp == Answer(CreateTableAnswer(conn[c], cur[c].key), f)
       IN /\ StoreCreateTable(conn[c], cur[c].key, resp)
          /\ SingleStep(c, "create_table", resp, SingleAfterCreateTable(resp))
    /\ UNCHANGED <<indexes, rows, registry, conn, cachevars, call, loopvars, budget>>
    /\ FaultStep(c, f, m)

SingleCreateIndex(c, f, m) ==
    /\ Running(c, "s_create_index")
    /\ LET resp == Answer(CreateIndexAnswer(conn[c], cur[c].key), f)
       IN /\ StoreCreateIndex(conn[c], cur[c].key, resp)
          /\ SingleStep(c, "create_index", resp, SingleAfterCreateIndex(resp))
    /\ UNCHANGED <<tables, rows, registry, conn, cachevars, call, loopvars, budget>>
    /\ FaultStep(c, f, m)

\* Retry insertion (lines 243-259).
SingleRetry(c, f, m) ==
    /\ Running(c, "s_retry")
    /\ LET resp == Answer(InsertAnswer(conn[c], cur[c].key), f)
       IN /\ StoreInsert(conn[c], cur[c].key, cur[c].params, resp)
          /\ SingleStep(c, "insert", resp, "done")
    /\ UNCHANGED <<tables, indexes, registry, conn, cachevars, call, loopvars, budget>>
    /\ FaultStep(c, f, m)

\* ------------------------------------------------- get_records_in_region
CallGetRecords(c) ==
    /\ Idle(c)
    /\ nquery < MaxQueries
    /\ \E w \in QueryWorlds, point \in QueryPoints :
         StartCall(c, "get_records_in_region", <<>>, w, point, "g_lookup")
    /\ nquery' = nquery + 1
    /\ UNCHANGED <<dbvars, conn, cachevars, acked, nrec, nfault, script, round>>

\* lookup_ids(world_name, &point_inside_region).await? (line 269).
GetLookup(c, f, m) ==
    /\ Running(c, "g_lookup")
    /\ LET lk == LookupIds(c, call[c].world_name, call[c].point, f)
       IN /\ lk.hit => f = "none"
          /\ LookupEffect(c, lk)
          /\ log' = [log EXCEPT ![c] = LookupLog(c, lk, f)]
          /\ IF ~lk.ok
             THEN /\ result' = [result EXCEPT ![c] = Err(f)]
                  /\ pc' = [pc EXCEPT ![c] = "done"]
                  /\ UNCHANGED cur
             ELSE /\ cur' = [cur EXCEPT ![c] =
                        [key |-> <<call[c].world_name, lk.table_suffix>>,
                         params |-> <<[region_id |-> lk.region_id]>>]]
                  /\ pc' = [pc EXCEPT ![c] = "g_query"]
                  /\ UNCHANGED result
    /\ UNCHANGED <<tables, indexes, rows, conn, call, idx, table_map, todo, errors,
                   placed, budget, acked>>
    /\ FaultStep(c, f, m)

\* (mutant) a missing table reads as no rows
QueryResult_EmptyOnMissing(c, resp) ==
    IF resp = "undefined_table" THEN [ok |-> TRUE, err |-> "none", records |-> EmptyBag]
    ELSE IF IsError(resp) THEN Err(resp)
    ELSE [ok |-> TRUE, err |-> "none",
          records |-> RowsToRecords(
              SelectedRows(conn[c], cur[c].key, cur[c].params[1].region_id),
              call[c].world_name)]

\* (mutant) the query is given table_suffix in place of region_id
QueryResult_SuffixAsRegion(c, resp) ==
    IF IsError(resp) THEN Err(resp)
    ELSE [ok |-> TRUE, err |-> "none",
          records |-> RowsToRecords(
              SelectedRows(conn[c], cur[c].key, cur[c].key[2]), call[c].world_name)]

\* The value get_records_in_region returns on the store's answer (lines 272-280).
QueryResult(c, resp) ==
    IF IsError(resp) THEN Err(resp)
    ELSE [ok |-> TRUE, err |-> "none",
          records |-> RowsToRecords(
              SelectedRows(conn[c], cur[c].key, cur[c].params[1].region_id),
              call[c].world_name)]

\* client.query(&query, &[&region_id]).await? and the mapping of the rows.
GetQuery(c, f, m) ==
    /\ Running(c, "g_query")
    /\ LET resp == Answer(SelectAnswer(conn[c], cur[c].key), f)
       IN /\ log' = [log EXCEPT ![c] = Append(@, [stmt |-> "select", key |-> cur[c].key, resp |-> resp])]
          /\ result' = [result EXCEPT ![c] = QueryResult(c, resp)]
          /\ pc' = [pc EXCEPT ![c] = "done"]
    /\ UNCHANGED <<dbvars, conn, cachevars, call, loopvars, budget, acked>>
    /\ FaultStep(c, f, m)

\* ------------------------------------------------------------ specification
\* The caller has taken the returned value; the instance is free for its next call.
Forget(c) ==
    /\ pc[c] = "done"
    /\ StartCall(c, "none", <<>>, "", <<0, 0, 0>>, "idle")
    /\ UNCHANGED <<dbvars, conn, cachevars, acked, nrec, nfault, nquery, script, round>>

\* Two engine instances on one store. Client "a" batches and reads back; client
\* "b" is a caller that cannot batch and uses the single-record variant.
Next ==
    \/ \E c \in Clients : Forget(c)
    \/ CallInsertRecords("a")
    \/ CallInsertRecord("b")
    \/ CallGetRecords("a")
    \/ ReturnErrors("a")
    \/ \E c \in Clients, f \in Faults : DivideRecord(c, f, "inject")
    \/ \E c \in Clients, f \in Faults : ExecInsert(c, f, "inject")
    \/ \E c \in Clients, f \in Faults : ExecCreateTable(c, f, "inject")
    \/ \E c \in Clients, f \in Faults : ExecCreateIndex(c, f, "inject")
    \/ \E c \in Clients, f \in Faults : ExecRetry(c, f, "inject")
    \/ \E c \in Clients, f \in Faults : SingleLookup(c, f, "inject")
    \/ \E c \in Clients, f \in Faults : SingleInsert(c, f, "inject")
    \/ \E c \in Clients, f \in Faults : SingleCreateTable(c, f, "inject")
    \/ \E c \in Clients, f \in Faults : SingleCreateIndex(c, f, "inject")
    \/ \E c \in Clients, f \in Faults : SingleRetry(c, f, "inject")
    \/ \E c \in Clients, f \in Faults : GetLookup(c, f, "inject")
    \/ \E c \in Clients, f \in Faults : GetQuery(c, f, "inject")

Spec == Init /\ [][Next]_vars

\* ------------------------------------------- insert_record vs insert_records
\* Two instances on two stores in the same state: "a" is handed a one-record
\* batch, "b" the same record through insert_record, and the stores answer both
\* with the same failures (script).
InitEquiv ==
    /\ InitCommon
    /\ conn = [c \in Clients |-> IF c = "a" THEN "db1" ELSE "db2"]
    /\ capacity = [c \in Clients |-> NewCapacity(cache_size)]

BeginPair ==
    /\ \A c \in Clients : pc[c] = "idle"
    /\ round < MaxRounds
    /\ \E record \in RecordPool :
          call' = [c \in Clients |->
                     [op |-> IF c = "a" THEN "insert_records" ELSE "insert_record",
                      records |-> <<record>>, world_name |-> "", point |-> <<0, 0, 0>>]]
    /\ pc' = [c \in Clients |-> IF c = "a" THEN "divide" ELSE "s_lookup"]
    /\ round' = round + 1
    /\ script' = <<>>
    /\ UNCHANGED <<dbvars, conn, cachevars, loopvars, result, log, acked, nrec, nfault,
                   nquery, extvars>>

\* Both calls have returned and both callers take the value.
ForgetPair ==
    /\ \A c \in Clients : pc[c] = "done"
    /\ pc' = [c \in Clients |-> "idle"]
    /\ call' = [c \in Clients |-> NoCall]
    /\ idx' = [c \in Clients |-> 1]
    /\ table_map' = [c \in Clients |-> EmptyMap]
    /\ todo' = [c \in Clients |-> {}]
    /\ cur' = [c \in Clients |-> NoCur]
    /\ errors' = [c \in Clients |-> <<>>]
    /\ result' = [c \in Clients |-> NoResult]
    /\ log' = [c \in Clients |-> <<>>]
    /\ placed' = [c \in Clients |-> <<>>]
    /\ UNCHANGED <<dbvars, conn, cachevars, acked, nrec, nfault, nquery, script, round,
                   extvars>>

NextEquiv ==
    \/ BeginPair
    \/ ForgetPair
    \/ ReturnErrors("a")
    \/ \E f \in Faults : DivideRecord("a", f, "script")
    \/ \E f \in Faults : ExecInsert("a", f, "script")
    \/ \E f \in Faults : ExecCreateTable("a", f, "script")
    \/ \E f \in Faults : ExecCreateIndex("a", f, "script")
    \/ \E f \in Faults : ExecRetry("a", f, "script")
    \/ \E f \in Faults : SingleLookup("b", f, "script")
    \/ \E f \in Faults : SingleInsert("b", f, "script")
    \/ \E f \in Faults : SingleCreateTable("b", f, "script")
    \/ \E f \in Faults : SingleCreateIndex("b", f, "script")
    \/ \E f \in Faults : SingleRetry("b", f, "script")

SpecEquiv == InitEquiv /\ [][NextEquiv]_vars

\* ------------------------------------------------------------ lookup_ids
\* (world_name, position) pairs resolved: two positions of one WorldRegion, two
\* further regions of the same world and one region of another world.
ResolveInputs ==
    { <<"w1", <<0, 0, 0>>>>, <<"w1", <<1, 1, 0>>>>, <<"w1", <<2, -1, 0>>>>,
      <<"w1", <<0, 0, 2>>>>, <<"w2", <<0, 0, 0>>>> }

\* Instance "a" has the bounded caches, instance "b" unbounded ones; both are
\* connected to the same store.
InitResolve ==
    /\ InitCommon
    /\ conn = [c \in Clients |-> "db1"]
    /\ capacity = [c \in Clients |-> NewCapacity(cache_sizes[c])]

\* One call of lookup_ids(world_name, position) by client c, the registry
\* answering f if it is asked.
Resolve(c, f) ==
    /\ nres < MaxResolves
    /\ f # "none" => nfault < MaxFaults
    /\ \E inp \in ResolveInputs :
         LET lk == LookupIds(c, inp[1], inp[2], f)
             d == conn[c]
         IN /\ lk.hit => f = "none"
            /\ LookupEffect(c, lk)
            /\ resolved' = [client |-> c, input |-> inp, region |-> lk.region,
                            hit |-> lk.hit, ok |-> lk.ok,
                            io |-> LookupLog(c, lk, f) # log[c],
                            table_suffix |-> lk.table_suffix, region_id |-> lk.region_id]
            /\ uses' = [uses EXCEPT ![c] = IF lk.ok THEN Append(@, lk.region) ELSE @]
            /\ assigned' = [assigned EXCEPT ![d] =
                  IF lk.ok /\ lk.region \notin DOMAIN @
                  THEN [r \in DOMAIN @ \cup {lk.region} |->
                          IF r = lk.region
                          THEN [input |-> inp, table_suffix |-> lk.table_suffix,
                                region_id |-> lk.region_id]
                          ELSE @[r]]
                  ELSE @]
    /\ nres' = nres + 1
    /\ nfault' = IF f = "none" THEN nfault ELSE nfault + 1
    /\ UNCHANGED <<tables, indexes, rows, conn, pc, call, loopvars, result, log, acked,
                   budget, script, round, capacity, areavars, netvars>>

NextResolve == \E c \in Clients, f \in {"none", "db_other"} : Resolve(c, f)

SpecResolve == InitResolve /\ [][NextResolve]_vars

\* ------------------------------------------------------------------ AreaMap
\* is_peer_subscribed(&self, uuid, cube) (lines 29-37)
is_peer_subscribed(uuid, cube) ==
    LET area == ToCubeArea(cube, cube_size)
    IN IF area \notin DOMAIN area_map THEN FALSE ELSE uuid \in area_map[area]

\* get_subscribed_peers(&self, cube) (lines 41-49): the peers the iterator yields.
get_subscribed_peers(cube) ==
    LET area == ToCubeArea(cube, cube_size)
    IN IF area \notin DOMAIN area_map THEN {} ELSE area_map[area]

\* (mutant) the cell is given a fresh set even when it is present
EntryOrInsert_Reset(m, area) == [k \in DOMAIN m \cup {area} |-> IF k = area THEN {} ELSE m[k]]

\* self.map.entry(cube).or_insert_with(Default::default) (lines 62, 81)
EntryOrInsert(m, area) ==
    IF area \in DOMAIN m THEN m
    ELSE [k \in DOMAIN m \cup {area} |-> IF k = area THEN {} ELSE m[k]]

\* (mutant) an emptied cell is kept
RemoveIfEmpty_Keep(m, area) == m

\* if entry.is_empty() { self.map.remove(&cube); } (lines 89-91)
RemoveIfEmpty(m, area) ==
    IF m[area] = {} THEN [k \in DOMAIN m \ {area} |-> m[k]] ELSE m

\* (mutant) the loop stops at the first cell the peer is removed from
RemoveFromCells_First(m, uuid) ==
    IF \E k \in DOMAIN m : uuid \in m[k]
    THEN LET first == CHOOSE k \in DOMAIN m : uuid \in m[k]
         IN [k \in DOMAIN m |-> IF k = first THEN m[k] \ {uuid} ELSE m[k]]
    ELSE m

\* (mutant) cells the removal empties are dropped
RemoveFromCells_Compact(m, uuid) ==
    [k \in {j \in DOMAIN m : m[j] \ {uuid} # {}} |-> m[k] \ {uuid}]

\* for (area, peers) in &mut self.map { peers.remove(uuid) } (lines 102-106)
RemoveFromCells(m, uuid) == [k \in DOMAIN m |-> m[k] \ {uuid}]

OtherVarsOfArea == <<corevars, resolvevars, netvars>>

\* add_subscription(&mut self, uuid, cube) (lines 54-66)
add_subscription(uuid, cube) ==
    LET area == ToCubeArea(cube, cube_size)
        entry == EntryOrInsert(area_map, area)
    IN /\ area_map' = [entry EXCEPT ![area] = @ \cup {uuid}]
       /\ last_op' = [name |-> "add_subscription", uuid |-> uuid, cube |-> cube,
                 ret |-> uuid \notin entry[area], before |-> area_map]
       /\ subs' = subs \cup {<<uuid, area>>}
       /\ UNCHANGED OtherVarsOfArea

\* remove_subscription(&mut self, uuid, cube) (lines 69-94)
remove_subscription(uuid, cube) ==
    LET area == ToCubeArea(cube, cube_size)
    IN /\ IF area \notin DOMAIN area_map
          THEN /\ UNCHANGED area_map
               /\ last_op' = [name |-> "remove_subscription", uuid |-> uuid, cube |-> cube,
                         ret |-> FALSE, before |-> area_map]
          ELSE LET entry == EntryOrInsert(area_map, area)
               IN /\ area_map' = RemoveIfEmpty([entry EXCEPT ![area] = @ \ {uuid}], area)
                  /\ last_op' = [name |-> "remove_subscription", uuid |-> uuid, cube |-> cube,
                            ret |-> uuid \in entry[area], before |-> area_map]
       /\ subs' = subs \ {<<uuid, area>>}
       /\ UNCHANGED OtherVarsOfArea

\* remove_peer(&mut self, uuid) (lines 99-108)
remove_peer(uuid) ==
    /\ area_map' = RemoveFromCells(area_map, uuid)
    /\ last_op' = [name |-> "remove_peer", uuid |-> uuid, cube |-> <<0, 0, 0>>,
              ret |-> \E k \in DOMAIN area_map : uuid \in area_map[k],
              before |-> area_map]
    /\ subs' = {e \in subs : e[1] # uuid}
    /\ UNCHANGED OtherVarsOfArea

NextArea ==
    \/ \E uuid \in Peers, cube \in AreaPoints : add_subscription(uuid, cube)
    \/ \E uuid \in Peers, cube \in AreaPoints : remove_subscription(uuid, cube)
    \/ \E uuid \in Peers : remove_peer(uuid)

SpecArea == Init /\ [][NextArea]_vars

\* ------------------------------------------------- transport: incoming loop

\* (mutant) whatever an unknown sender sends that is no handshake is forwarded
Route_UnknownToMsg(known, message) ==
    IF message.instruction # "Handshake" THEN "msg_tx"
    ELSE IF known \/ ~message.parameter THEN "none" ELSE "handshake_tx"

\* The channel a deserialized message is sent on (lines 56-73); `known` is
\* map.contains_key(&message.sender_uuid).
Route(known, message) ==
    IF known
    THEN IF message.instruction # "Handshake" THEN "msg_tx" ELSE "none"
    ELSE IF message.instruction # "Handshake" \/ ~message.parameter
         THEN "none" ELSE "handshake_tx"

OtherVarsOfNet == <<corevars, resolvevars, areavars>>

\* pull_socket.next().await yields a frame, which is deserialized (lines 28-51).
Pull(frame) ==
    /\ task["incoming"] = "idle"
    /\ nmsg < MaxMsgs
    /\ nmsg' = nmsg + 1
    /\ IF frame.valid
       THEN /\ held' = [held EXCEPT !["incoming"] = frame]
            /\ task' = [task EXCEPT !["incoming"] = "read"]
            /\ UNCHANGED routed
       ELSE /\ routed' = [frame |-> frame, known |-> FALSE, to |-> "none"]
            /\ UNCHANGED <<held, task>>
    /\ UNCHANGED <<peer_map, lock, msg_ch, handshake_ch, OtherVarsOfNet>>

\* let msg = msg?; (line 32): a socket error ends the loop.
PullError ==
    /\ task["incoming"] = "idle"
    /\ task' = [task EXCEPT !["incoming"] = "stopped"]
    /\ routed' = [frame |-> NoMessage, known |-> FALSE, to |-> "error"]
    /\ UNCHANGED <<peer_map, lock, msg_ch, handshake_ch, held, nmsg, OtherVarsOfNet>>

\* peer_map.read().await and the checks up to the next await (lines 55-70). The
\* guard `map` lives to the end of the block: it is dropped by the `continue` of
\* line 62 or at line 64, and is alive while line 59 awaits.
CheckSender ==
    /\ task["incoming"] = "read"
    /\ lock.writer = "none" /\ lock.waiting = {}
    /\ LET message == held["incoming"]
           known == message.sender \in peer_map
           to == Route(known, message)
       IN IF to = "msg_tx"
          THEN /\ lock' = [lock EXCEPT !.readers = @ \cup {"incoming"}]
               /\ task' = [task EXCEPT !["incoming"] = "send_msg"]
               /\ routed' = [frame |-> message, known |-> known, to |-> "none"]
               /\ UNCHANGED held
          ELSE IF to = "handshake_tx"
          THEN /\ task' = [task EXCEPT !["incoming"] = "send_handshake"]
               /\ routed' = [frame |-> message, known |-> known, to |-> "none"]
               /\ UNCHANGED <<lock, held>>
          ELSE /\ task' = [task EXCEPT !["incoming"] = "idle"]
               /\ held' = [held EXCEPT !["incoming"] = NoMessage]
               /\ routed' = [frame |-> message, known |-> known, to |-> "none"]
               /\ UNCHANGED lock
    /\ UNCHANGED <<peer_map, msg_ch, handshake_ch, nmsg, OtherVarsOfNet>>

\* msg_tx.send_async(message).await?; continue; (lines 59-62)
SendMsg ==
    /\ task["incoming"] = "send_msg"
    /\ Len(msg_ch) < ChanCap
    /\ msg_ch' = Append(msg_ch, held["incoming"])
    /\ lock' = [lock EXCEPT !.readers = @ \ {"incoming"}]
    /\ routed' = [routed EXCEPT !.to = "msg_tx"]
    /\ task' = [task EXCEPT !["incoming"] = "idle"]
    /\ held' = [held EXCEPT !["incoming"] = NoMessage]
    /\ UNCHANGED <<peer_map, handshake_ch, nmsg, OtherVarsOfNet>>

\* handshake_tx.send_async(message).await?; (line 73)
SendHandshake ==
    /\ task["incoming"] = "send_handshake"
    /\ Len(handshake_ch) < ChanCap
    /\ handshake_ch' = Append(handshake_ch, held["incoming"])
    /\ routed' = [routed EXCEPT !.to = "handshake_tx"]
    /\ task' = [task EXCEPT !["incoming"] = "idle"]
    /\ held' = [held EXCEPT !["incoming"] = NoMessage]
    /\ UNCHANGED <<peer_map, lock, msg_ch, nmsg, OtherVarsOfNet>>

\* ------------------------------------------------------ transport: consumers
\* The processing task takes a message from msg_rx; a GlobalMessage is handed to
\* handle_global_message, which asks for the write lock at once (line 11).
RecvMsg ==
    /\ task["processing"] = "idle"
    /\ msg_ch # <<>>
    /\ msg_ch' = Tail(msg_ch)
    /\ IF Head(msg_ch).instruction = "GlobalMessage"
       THEN /\ held' = [held EXCEPT !["processing"] = Head(msg_ch)]
            /\ task' = [task EXCEPT !["processing"] = "write"]
            /\ lock' = [lock EXCEPT !.waiting = @ \cup {"processing"}]
       ELSE UNCHANGED <<held, task, lock>>
    /\ UNCHANGED <<peer_map, handshake_ch, routed, nmsg, OtherVarsOfNet>>

\* The handshake task takes a message from handshake_rx and asks for the write
\* lock to admit the peer.
RecvHandshake ==
    /\ task["handshake"] = "idle"
    /\ handshake_ch # <<>>
    /\ handshake_ch' = Tail(handshake_ch)
    /\ held' = [held EXCEPT !["handshake"] = Head(handshake_ch)]
    /\ task' = [task EXCEPT !["handshake"] = "write"]
    /\ lock' = [lock EXCEPT !.waiting = @ \cup {"handshake"}]
    /\ UNCHANGED <<peer_map, msg_ch, routed, nmsg, OtherVarsOfNet>>

\* peer_map.write().await returns (global_message.rs line 11): no reader and no
\* writer holds the lock.
AcquireWrite(t) ==
    /\ task[t] = "write"
    /\ lock.readers = {} /\ lock.writer = "none"
    /\ lock' = [lock EXCEPT !.writer = t, !.waiting = @ \ {t}]
    /\ task' = [task EXCEPT ![t] = IF t = "processing" THEN "broadcast" ELSE "admit"]
    /\ UNCHANGED <<peer_map, msg_ch, handshake_ch, held, routed, nmsg, OtherVarsOfNet>>

\* map.broadcast_except(message, uuid).await under the write guard, which is
\* dropped when handle_global_message returns (global_message.rs lines 12-15).
Broadcast ==
    /\ task["processing"] = "broadcast"
    /\ lock' = [lock EXCEPT !.writer = "none"]
    /\ task' = [task EXCEPT !["processing"] = "idle"]
    /\ held' = [held EXCEPT !["processing"] = NoMessage]
    /\ UNCHANGED <<peer_map, msg_ch, handshake_ch, routed, nmsg, OtherVarsOfNet>>

\* The sender of the handshake becomes a connected peer.
AdmitPeer ==
    /\ task["handshake"] = "admit"
    /\ peer_map' = peer_map \cup {held["handshake"].sender}
    /\ lock' = [lock EXCEPT !.writer = "none"]
    /\ task' = [task EXCEPT !["handshake"] = "idle"]
    /\ held' = [held EXCEPT !["handshake"] = NoMessage]
    /\ UNCHANGED <<msg_ch, handshake_ch, routed, nmsg, OtherVarsOfNet>>

NextNet ==
    \/ \E frame \in Frames : Pull(frame)
    \/ PullError
    \/ CheckSender
    \/ SendMsg
    \/ SendHandshake
    \/ RecvMsg
    \/ RecvHandshake
    \/ \E t \in {"processing", "handshake"} : AcquireWrite(t)
    \/ Broadcast
    \/ AdmitPeer

SpecNet == Init /\ [][NextNet]_vars

\* ------------------------------------------------------------------ claims
InsertManyDone(c) == pc[c] = "done" /\ call[c].op = "insert_records"
InsertOneDone(c) == pc[c] = "done" /\ call[c].op = "insert_record"
GetDone(c) == pc[c] = "done" /\ call[c].op = "get_records_in_region"

\* Positions in the log of client c of the statements of kind stmt on table key.
Issued(c, stmt, key) == {j \in DOMAIN log[c] : log[c][j].stmt = stmt /\ log[c][j].key = key}
IssuedOk(c, stmt, key) == {j \in Issued(c, stmt, key) : log[c][j].resp = "ok"}
GroupFailures(c, key) == {j \in DOMAIN errors[c] : errors[c][j].src = <<"group", key>>}
RecordFailures(c, i) == {j \in DOMAIN errors[c] : errors[c][j].src = <<"record", i>>}

\* The store answered the call of client c with nothing but success and
\* "relation missing".
Clean(c) == \A j \in DOMAIN log[c] : log[c][j].resp \in {"ok", "undefined_table"}

\* The row record i of the batch of client c is stored as; the record is stored
\* when the table holds as many copies of the row as the call grouped.
RowOf(c, i) ==
    LET record == call[c].records[i]
        region_id == registry[conn[c]][WorldRegionOf(record.world_name, record.position)]
    IN [tbl |-> <<record.world_name, TableSuffixOf(region_id)>>, region_id |-> region_id,
        x |-> record.position[1], y |-> record.position[2], z |-> record.position[3],
        uuid |-> record.uuid, data |-> record.data, flex |-> record.flex]
IsStored(c, i) ==
    /\ WorldRegionOf(call[c].records[i].world_name, call[c].records[i].position)
          \in DOMAIN registry[conn[c]]
    /\ CopiesIn(RowOf(c, i), rows[conn[c]])
          >= Cardinality({k \in DOMAIN placed[c] :
                 call[c].records[k] = call[c].records[i] /\ placed[c][k].outcome = "grouped"})

\* C1: insert_records never aborts early: when it returns, every record of the
\* batch was looked at; every record with a valid world name whose lookup did not
\* fail sits in exactly one (world_name, TableSuffix) group; and the multi-row
\* insert of every group was issued, whatever failed for other records or groups.
C1_NeverAbortsEarly ==
    \A c \in Clients : InsertManyDone(c) =>
        /\ Len(placed[c]) = Len(call[c].records)
        /\ \A i \in DOMAIN placed[c] :
             (IsValidWorldName(call[c].records[i].world_name)
                 /\ placed[c][i].outcome # "lookup_failed")
             => /\ placed[c][i].outcome = "grouped"
                /\ {k \in DOMAIN table_map[c] :
                      \E n \in DOMAIN table_map[c][k].params :
                         /\ table_map[c][k].params[n].uuid = call[c].records[i].uuid
                         /\ k[1] = call[c].records[i].world_name}
                   = {placed[c][i].key}
        /\ \A k \in DOMAIN table_map[c] :
             /\ table_map[c][k].count = Len(table_map[c][k].params)
             /\ table_map[c][k].count =
                  Cardinality({i \in DOMAIN placed[c] : placed[c][i].key = k})
             /\ Issued(c, "insert", k) # {}

\* A record failed, a group failed, and still another group was inserted.
C1_Witness ==
    \E c \in Clients :
        /\ InsertManyDone(c)
        /\ \E i \in DOMAIN placed[c] : placed[c][i].outcome = "invalid_name"
        /\ \E k \in DOMAIN table_map[c] : GroupFailures(c, k) # {}
        /\ \E k \in DOMAIN table_map[c] : GroupFailures(c, k) = {} /\ IssuedOk(c, "insert", k) # {}

\* C2: the returned failure list accounts for everything that did not persist:
\* an empty list means every record of the batch is stored in its shard table, and
\* every record is either stored or stands behind a record-level or group-level
\* failure of the list; the rows of a group whose insert succeeded stay stored
\* when another group of the same call fails.
C2_FailureListComplete ==
    \A c \in Clients : InsertManyDone(c) =>
        /\ errors[c] = <<>> => \A i \in DOMAIN call[c].records : IsStored(c, i)
        /\ \A i \in DOMAIN call[c].records :
             \/ RecordFailures(c, i) # {}
             \/ placed[c][i].outcome = "grouped" /\ GroupFailures(c, placed[c][i].key) # {}
             \/ placed[c][i].outcome = "grouped" /\ IsStored(c, i)
        /\ \A k \in DOMAIN table_map[c] :
             IssuedOk(c, "insert", k) # {} =>
                \A i \in DOMAIN placed[c] : placed[c][i].key = k => IsStored(c, i)

\* One group failed for good while another group of the call is stored.
C2_Witness ==
    \E c \in Clients :
        /\ InsertManyDone(c)
        /\ \E k1, k2 \in DOMAIN table_map[c] :
             /\ GroupFailures(c, k1) # {} /\ IssuedOk(c, "insert", k1) = {}
             /\ GroupFailures(c, k2) = {} /\ IssuedOk(c, "insert", k2) # {}

\* C3: on "relation missing" a group issues create-table, then create-index, then
\* the insert once more, in this order; a failure of one of the three pushes one
\* failure and ends the group. Per call and group: at most two inserts, one
\* create-table, one create-index, and create-index only after a successful
\* create-table.
C3_RemediateOnce ==
    \A c \in Clients : call[c].op = "insert_records" =>
        \A k \in DOMAIN table_map[c] :
            LET ins == Issued(c, "insert", k)
                ct == Issued(c, "create_table", k)
                ci == Issued(c, "create_index", k)
            IN /\ Cardinality(ins) <= 2 /\ Cardinality(ct) <= 1 /\ Cardinality(ci) <= 1
               /\ \A j \in ct : j - 1 \in ins /\ log[c][j - 1].resp = "undefined_table"
               /\ \A j \in ci : j - 1 \in IssuedOk(c, "create_table", k)
               /\ \A j \in ins : j - 1 \in ins \cup ct \cup ci =>
                     j - 1 \in IssuedOk(c, "create_index", k)
               /\ \A j \in IssuedOk(c, "create_table", k) :
                     j = Len(log[c]) \/ j + 1 \in ci
               /\ \A j \in IssuedOk(c, "create_index", k) :
                     j = Len(log[c]) \/ j + 1 \in ins
               /\ Cardinality(GroupFailures(c, k)) <= 1
               /\ (\E j \in ct \cup ci : log[c][j].resp # "ok") => GroupFailures(c, k) # {}
               /\ (Cardinality(ins) = 2 /\ ins \ IssuedOk(c, "insert", k) = ins)
                     => GroupFailures(c, k) # {}

\* A group went through create-table, create-index and the retry, and the retry
\* failed.
C3_Witness ==
    \E c \in Clients :
        /\ InsertManyDone(c)
        /\ \E k \in DOMAIN table_map[c] :
             /\ Cardinality(Issued(c, "insert", k)) = 2
             /\ IssuedOk(c, "create_index", k) # {}
             /\ IssuedOk(c, "insert", k) = {}
             /\ Cardinality(GroupFailures(c, k)) = 1

\* C4: when the multi-row insert of a group fails for another cause than
\* "relation missing", exactly one failure is recorded for the group, no
\* create-table and no create-index is issued for it, and the insert is not
\* retried.
C4_OtherFailureNoRetry ==
    \A c \in Clients : call[c].op = "insert_records" =>
        \A j \in DOMAIN log[c] :
            (log[c][j].stmt = "insert"
                /\ log[c][j].resp \notin {"ok", "undefined_table"}
                /\ \A n \in Issued(c, "insert", log[c][j].key) : n >= j)
            => LET k == log[c][j].key
               IN /\ Cardinality(GroupFailures(c, k)) = 1
                  /\ \A e \in GroupFailures(c, k) :
                        errors[c][e].kind = "PostgresError" /\ errors[c][e].resp = log[c][j].resp
                  /\ Issued(c, "insert", k) = {j}
                  /\ Issued(c, "create_table", k) = {}
                  /\ Issued(c, "create_index", k) = {}
                  /\ cur[c].key # k

\* The insert of one group met a non-database error while the table existed, and
\* the call went on to its other group.
C4_Witness ==
    \E c \in Clients :
        /\ InsertManyDone(c)
        /\ \E j \in DOMAIN log[c] :
              /\ log[c][j].stmt = "insert" /\ log[c][j].resp = "io"
              /\ log[c][j].key \in tables[conn[c]]
              /\ j < Len(log[c])

\* C5: create-table is issued only right after an insert into that shard was
\* answered "relation missing", and only while the table does not exist: a later
\* insert into a shard that exists issues none. When the store fails with nothing
\* but "relation missing", the first insert into a shard returns no failure for
\* it and leaves the table, its index and the records in place.
C5_CreateOnlyOnMiss ==
    /\ [](\A c \in Clients :
            /\ \A j \in DOMAIN log[c] :
                 log[c][j].stmt = "create_table" =>
                    /\ j > 1
                    /\ log[c][j - 1] = [stmt |-> "insert", key |-> log[c][j].key,
                                        resp |-> "undefined_table"]
            /\ (InsertManyDone(c) /\ Clean(c)) =>
                 \A k \in DOMAIN table_map[c] :
                    /\ GroupFailures(c, k) = {}
                    /\ k \in tables[conn[c]]
                    /\ Issued(c, "create_table", k) # {} =>
                          /\ k \in indexes[conn[c]]
                          /\ Cardinality(Issued(c, "insert", k)) = 2
                    /\ \A i \in DOMAIN placed[c] : placed[c][i].key = k => IsStored(c, i))
    /\ [][\A c \in Clients :
            (pc'[c] \in {"create_table", "s_create_table"} /\ pc'[c] # pc[c])
            => cur'[c].key \notin tables[conn[c]]]_vars

\* A clean call created one shard and inserted into another that existed already.
C5_Witness ==
    \E c \in Clients :
        /\ InsertManyDone(c) /\ Clean(c)
        /\ \E k \in DOMAIN table_map[c] : Issued(c, "create_table", k) # {}
        /\ \E k \in DOMAIN table_map[c] :
              Issued(c, "create_table", k) = {} /\ IssuedOk(c, "insert", k) # {}

InvalidIn(c) == {i \in DOMAIN call[c].records : ~IsValidWorldName(call[c].records[i].world_name)}

InRegion(r, w, p) ==
    r.world_name = w /\ WorldRegionOf(r.world_name, r.position) = WorldRegionOf(w, p)

\* C6: when the store and the registry fail with nothing but "relation missing",
\* a batch with k invalid world names returns exactly k failures, one
\* invalid-world-name failure per such record, every other record is stored, and
\* a later get_records_in_region of its region returns every record an insert
\* reported no failure for.
C6_InvalidNamesOnly ==
    \A c \in Clients :
        /\ (InsertManyDone(c) /\ Clean(c)) =>
              /\ Len(errors[c]) = Cardinality(InvalidIn(c))
              /\ \A i \in InvalidIn(c) :
                    \E j \in DOMAIN errors[c] :
                       errors[c][j].kind = "InvalidWorldName" /\ errors[c][j].src = <<"record", i>>
              /\ \A i \in DOMAIN call[c].records \ InvalidIn(c) : IsStored(c, i)
        /\ (GetDone(c) /\ Clean(c)) =>
              \A r \in BagToSet(acked[conn[c]]) :
                 InRegion(r, call[c].world_name, call[c].point) =>
                    /\ result[c].ok
                    /\ CopiesIn(r, result[c].records) >= CopiesIn(r, acked[conn[c]])

\* Three records, the invalid one between two valid ones that share a shard.
C6_Witness ==
    \E c \in Clients :
        /\ InsertManyDone(c) /\ Clean(c)
        /\ Len(call[c].records) = 3
        /\ InvalidIn(c) = {2}
        /\ placed[c][1].key = placed[c][3].key
        /\ call[c].records[1] # call[c].records[3]

\* C8: get_records_in_region issues nothing but the lookup and the read (it
\* creates no table and no index); when the region resolves and the shard table
\* does not exist it returns an error, not an empty sequence; and whenever the
\* lookup or the read fails, the call fails and carries no record.
C8_ReadStrict ==
    \A c \in Clients : call[c].op = "get_records_in_region" =>
        /\ \A j \in DOMAIN log[c] : log[c][j].stmt \in {"lookup", "select"}
        /\ GetDone(c) =>
              /\ (cur[c].key # NoKey /\ cur[c].key \notin tables[conn[c]]) => ~result[c].ok
              /\ (\E j \in DOMAIN log[c] : log[c][j].resp # "ok") => ~result[c].ok
              /\ cur[c].key = NoKey => ~result[c].ok
              /\ ~result[c].ok => result[c].records = EmptyBag /\ result[c].err # "none"

\* The region is in the registry, its shard table was never created, and the
\* read came back with "relation missing".
C8_Witness ==
    \E c \in Clients :
        /\ GetDone(c)
        /\ WorldRegionOf(call[c].world_name, call[c].point) \in DOMAIN registry[conn[c]]
        /\ cur[c].key \notin tables[conn[c]]
        /\ result[c] = Err("undefined_table")

\* How many rows of store d, in whatever table of the record's world and under
\* whatever RegionId, carry the columns of record r.
StoredCopies(d, r) ==
    LET same == {x \in BagToSet(rows[d]) :
                    /\ x.tbl[1] = r.world_name
                    /\ <<x.x, x.y, x.z>> = r.position
                    /\ x.uuid = r.uuid /\ x.data = r.data /\ x.flex = r.flex}
    IN BagCardinality([x \in same |-> rows[d][x]])

\* C9: a successful get_records_in_region returns, tagged with the queried world
\* name, exactly the records stored for positions of the queried region (so all
\* the records an insert into that region reported no failure for), and no
\* record of another region, also when that region shares the shard table.
C9_RoundTrip ==
    \A c \in Clients : (GetDone(c) /\ result[c].ok) =>
        LET w == call[c].world_name
            p == call[c].point
            d == conn[c]
        IN /\ \A r \in BagToSet(result[c].records) :
                 /\ InRegion(r, w, p)
                 /\ CopiesIn(r, result[c].records) = StoredCopies(d, r)
           /\ \A r \in RecordPool :
                 InRegion(r, w, p) => CopiesIn(r, result[c].records) = StoredCopies(d, r)
           /\ \A r \in BagToSet(acked[d]) :
                 InRegion(r, w, p) => CopiesIn(r, result[c].records) >= CopiesIn(r, acked[d])

\* Two records of the queried region came back while the same table holds a row
\* of another region.
C9_Witness ==
    \E c \in Clients :
        /\ GetDone(c) /\ result[c].ok
        /\ BagCardinality(result[c].records) = 2
        /\ Cardinality(BagToSet(result[c].records)) = 2
        /\ \E x \in BagToSet(rows[conn[c]]) :
              x.tbl = cur[c].key /\ x.region_id # cur[c].params[1].region_id

\* C7 (as claimed): a caller whose create-table or create-index is answered
\* "relation already exists" reports no failure for it and still retries its
\* insert, so a race of two callers on a new shard leaves no entry in either
\* failure list and both callers' records stored.
C7_RaceTolerated ==
    \A c \in Clients :
        \A j \in DOMAIN log[c] :
            (log[c][j].stmt \in {"create_table", "create_index"}
                /\ log[c][j].resp = "duplicate_table")
            => /\ \A e \in DOMAIN errors[c] : errors[c][e].resp # "duplicate_table"
               /\ result[c].err # "duplicate_table"
               /\ pc[c] = "done" =>
                     /\ Cardinality(Issued(c, "insert", log[c][j].key)) = 2
                     /\ \A i \in DOMAIN call[c].records : IsStored(c, i)

IsPrefix(s, t) == Len(s) <= Len(t) /\ \A j \in DOMAIN s : s[j] = t[j]

\* C10: handed the same record in the same store state and answered alike,
\* insert_record and insert_records of a one-record batch issue the same
\* statements in the same order, leave store, registry and caches in the same
\* state, and insert_record returns an error exactly when the failure list of
\* insert_records is not empty (then with one entry, for the same cause).
C10_SingleEqualsBatchOfOne ==
    /\ IsPrefix(log["a"], log["b"]) \/ IsPrefix(log["b"], log["a"])
    /\ (InsertManyDone("a") /\ InsertOneDone("b")) =>
          /\ log["a"] = log["b"]
          /\ tables["db1"] = tables["db2"]
          /\ indexes["db1"] = indexes["db2"]
          /\ rows["db1"] = rows["db2"]
          /\ registry["db1"] = registry["db2"]
          /\ table_cache["a"] = table_cache["b"]
          /\ region_cache["a"] = region_cache["b"]
          /\ acked["db1"] = acked["db2"]
          /\ (errors["a"] # <<>>) <=> ~result["b"].ok
          /\ Len(errors["a"]) <= 1
          /\ errors["a"] # <<>> =>
                result["b"].err = IF errors["a"][1].kind = "InvalidWorldName"
                                  THEN "InvalidWorldName" ELSE errors["a"][1].resp

\* Both went through create-table, create-index and a retry that failed, in a
\* state of the stores that an earlier pair of calls left.
C10_Witness ==
    /\ InsertManyDone("a") /\ InsertOneDone("b")
    /\ round = 2
    /\ Len(log["b"]) >= 4
    /\ log["b"][Len(log["b"])].stmt = "insert"
    /\ ~result["b"].ok
    /\ rows["db2"] # EmptyBag

\* ------------------------------------------------- claims: subscription index
AreaOf(cube) == ToCubeArea(cube, cube_size)
SameCube(p, q) == \A i \in 1..3 : FloorDiv(p[i], cube_size) = FloorDiv(q[i], cube_size)
MembersBefore(area) == IF area \in DOMAIN last_op.before THEN last_op.before[area] ELSE {}
MembersNow(area) == IF area \in DOMAIN area_map THEN area_map[area] ELSE {}
AreasSeen == DOMAIN last_op.before \cup DOMAIN area_map

\* The cells other than `area` are as they were before the latest operation, and
\* so is the membership of every peer other than uuid in `area`.
OthersUntouched(uuid, area) ==
    /\ \A k \in AreasSeen \ {area} :
          /\ k \in DOMAIN last_op.before /\ k \in DOMAIN area_map
          /\ area_map[k] = last_op.before[k]
    /\ MembersNow(area) \ {uuid} = MembersBefore(area) \ {uuid}

\* C11: a peer is reported subscribed at a position exactly when it subscribed
\* to some position of the same cube and has not unsubscribed from that cube nor
\* been removed since; and once the last member of a cell has unsubscribed,
\* the cell is absent from the map and subscribed_peers yields nothing for it.
C11_SubscribeThenQuery ==
    /\ \A uuid \in Peers, p \in AreaPoints :
          is_peer_subscribed(uuid, p) <=>
              \E e \in subs : e[1] = uuid /\ \E q \in AreaPoints : SameCube(p, q) /\ e[2] = AreaOf(q)
    /\ last_op.name = "remove_subscription" =>
          \A p \in AreaPoints :
             SameCube(p, last_op.cube) => ~is_peer_subscribed(last_op.uuid, p)
    /\ (/\ last_op.name = "remove_subscription"
        /\ MembersBefore(AreaOf(last_op.cube)) = {last_op.uuid})
       => /\ AreaOf(last_op.cube) \notin DOMAIN area_map
          /\ \A p \in AreaPoints :
                SameCube(p, last_op.cube) => get_subscribed_peers(p) = {}

\* The last member of a cell has just unsubscribed while it is still subscribed
\* to another cube.
C11_Witness ==
    /\ last_op.name = "remove_subscription"
    /\ last_op.ret
    /\ MembersBefore(AreaOf(last_op.cube)) = {last_op.uuid}
    /\ \E p \in AreaPoints : is_peer_subscribed(last_op.uuid, p)

\* C12: no CubeArea key is present in the map with an empty subscriber set.
C12_NoEmptyCell == \A k \in DOMAIN area_map : area_map[k] # {}

\* C13: after remove_peer(peer) the peer is a member of no cell and is reported
\* subscribed nowhere; the call returned true exactly when the peer was a member
\* of at least one cell, and left the index as it was when it returned false.
C13_RemovePeerEverywhere ==
    last_op.name = "remove_peer" =>
        /\ \A k \in DOMAIN area_map : last_op.uuid \notin area_map[k]
        /\ \A p \in AreaPoints : ~is_peer_subscribed(last_op.uuid, p)
        /\ last_op.ret <=> \E k \in DOMAIN last_op.before : last_op.uuid \in last_op.before[k]
        /\ ~last_op.ret => area_map = last_op.before

\* remove_peer has just removed a peer that was a member of two cells.
C13_Witness ==
    /\ last_op.name = "remove_peer"
    /\ last_op.ret
    /\ Cardinality({k \in DOMAIN last_op.before : last_op.uuid \in last_op.before[k]}) >= 2

\* C16: subscribe returns true exactly when the peer was not yet a member of the
\* cell, and a repeated subscribe leaves the index unchanged; unsubscribe returns
\* true exactly when the peer was a member, deletes the cell exactly when its set
\* is empty after the removal and otherwise keeps it with the remaining members;
\* neither touches another cell or another peer's membership.
C16_SubscribeUnsubscribeResults ==
    LET uuid == last_op.uuid
        area == AreaOf(last_op.cube)
    IN /\ last_op.name = "add_subscription" =>
             /\ last_op.ret <=> uuid \notin MembersBefore(area)
             /\ ~last_op.ret => area_map = last_op.before
             /\ area \in DOMAIN area_map /\ uuid \in area_map[area]
             /\ OthersUntouched(uuid, area)
       /\ last_op.name = "remove_subscription" =>
             /\ last_op.ret <=> uuid \in MembersBefore(area)
             /\ uuid \notin MembersNow(area)
             /\ area \in DOMAIN last_op.before =>
                   (area \notin DOMAIN area_map <=> last_op.before[area] \ {uuid} = {})
             /\ area \notin DOMAIN last_op.before => area \notin DOMAIN area_map
             /\ OthersUntouched(uuid, area)

\* A peer has just subscribed to a cell that already had another member, while
\* another cell is present too.
C16_Witness ==
    /\ last_op.name = "add_subscription"
    /\ last_op.ret
    /\ MembersBefore(AreaOf(last_op.cube)) # {}
    /\ Cardinality(DOMAIN area_map) >= 2

\* C17: remove_peer leaves the set of cell keys as it was (a cell whose only
\* member was the peer stays present with an empty set) and the other peers'
\* memberships unchanged; a cell present with an empty set answers
\* is_subscribed with false and subscribed_peers with nothing.
C17_RemovePeerKeepsCells ==
    /\ last_op.name = "remove_peer" =>
          /\ DOMAIN area_map = DOMAIN last_op.before
          /\ \A k \in DOMAIN last_op.before :
                area_map[k] = last_op.before[k] \ {last_op.uuid}
    /\ \A p \in AreaPoints :
          (AreaOf(p) \in DOMAIN area_map /\ area_map[AreaOf(p)] = {}) =>
              /\ \A uuid \in Peers : ~is_peer_subscribed(uuid, p)
              /\ get_subscribed_peers(p) = {}

\* remove_peer has just emptied a cell, which is still present, and left another
\* peer's cell as it was.
C17_Witness ==
    /\ last_op.name = "remove_peer"
    /\ \E k \in DOMAIN area_map : area_map[k] = {} /\ last_op.before[k] = {last_op.uuid}
    /\ \E k \in DOMAIN area_map : area_map[k] # {}

\* ------------------------------------------------------ claims: the resolver
Front(s) == SubSeq(s, 1, Len(s) - 1)
Last(s) == s[Len(s)]

\* The distinct elements of s, each at the place of its latest occurrence.
RECURSIVE LatestFirstSeen(_)
LatestFirstSeen(s) ==
    IF s = <<>> THEN <<>>
    ELSE Append(SelectSeq(LatestFirstSeen(Front(s)), LAMBDA e : e # Last(s)), Last(s))

\* The n most recently used of them (all of them when n = 0).
MostRecent(s, n) ==
    LET distinct == LatestFirstSeen(s)
    IN IF n = 0 \/ Len(distinct) <= n THEN distinct
       ELSE SubSeq(distinct, Len(distinct) - n + 1, Len(distinct))

CacheKeys(cache) == [i \in DOMAIN cache |-> cache[i][1]]

\* The WorldRegions client c had resolved before its latest lookup_ids call.
UsesBefore(c) == IF resolved.ok THEN Front(uses[c]) ELSE uses[c]

\* C14: whatever position of a WorldRegion is resolved, by whichever instance,
\* cold, warm or after the mapping was evicted, lookup_ids returns the pair
\* first returned for that WorldRegion; the registry keeps that RegionId, no two
\* WorldRegions share a RegionId, and TableSuffix = RegionId div table_size.
C14_StableIds ==
    /\ \A d \in Stores : \A r \in DOMAIN assigned[d] :
          /\ r \in DOMAIN registry[d]
          /\ registry[d][r] = assigned[d][r].region_id
          /\ assigned[d][r].table_suffix = assigned[d][r].region_id \div table_size
          /\ \A q \in DOMAIN assigned[d] :
                assigned[d][q].region_id = assigned[d][r].region_id => q = r
    /\ (resolved.client \in Clients /\ resolved.ok) =>
          LET first == assigned[conn[resolved.client]][resolved.region]
          IN /\ resolved.region_id = first.region_id
             /\ resolved.table_suffix = first.table_suffix
             /\ resolved.region[1] = resolved.input[1]
             /\ resolved.region[2] = FloorDiv(resolved.input[2][1], region_x_size)
             /\ resolved.region[3] = FloorDiv(resolved.input[2][2], region_y_size)
             /\ resolved.region[4] = FloorDiv(resolved.input[2][3], region_z_size)

\* An instance resolves, from the registry again after an eviction, another
\* position of a WorldRegion it has resolved before.
C14_Witness ==
    /\ resolved.client \in Clients
    /\ resolved.ok /\ resolved.io
    /\ \E i \in DOMAIN UsesBefore(resolved.client) :
          UsesBefore(resolved.client)[i] = resolved.region
    /\ resolved.input # assigned[conn[resolved.client]][resolved.region].input

\* C15: each cache holds at most cache_size mappings when cache_size > 0 and
\* every mapping when it is 0; the mappings held are those of the most recently
\* resolved WorldRegions, a hit counting as a use; resolving a WorldRegion held
\* in the caches performs no registry I/O and resolving any other one does.
C15_BoundedLru ==
    /\ \A c \in Clients :
          /\ cache_sizes[c] > 0 =>
                Len(table_cache[c]) <= cache_sizes[c] /\ Len(region_cache[c]) <= cache_sizes[c]
          /\ CacheKeys(table_cache[c]) = MostRecent(uses[c], cache_sizes[c])
          /\ CacheKeys(region_cache[c]) = MostRecent(uses[c], cache_sizes[c])
    /\ resolved.client \in Clients =>
          LET c == resolved.client
              cached == MostRecent(UsesBefore(c), cache_sizes[c])
          IN /\ resolved.hit <=> \E i \in DOMAIN cached : cached[i] = resolved.region
             /\ resolved.io <=> ~resolved.hit

\* With cache_size = 2 an instance has resolved three distinct WorldRegions and
\* then the first again, which took a registry lookup.
C15_Witness ==
    /\ resolved.client \in Clients
    /\ cache_sizes[resolved.client] = 2
    /\ Len(uses[resolved.client]) = 4
    /\ Cardinality({uses[resolved.client][i] : i \in 1..3}) = 3
    /\ uses[resolved.client][4] = uses[resolved.client][1]
    /\ resolved.ok /\ resolved.io

\* ------------------------------------------------------ claims: shard schema
\* No insert_records / insert_record call is under way.
Quiescent == \A c \in Clients : pc[c] \in {"idle", "done"}

\* C18: once the insert calls made so far have returned, whichever of their
\* statements failed, every shard table that exists has its RegionId index and
\* no row is stored in a table without it.
C18_ShardsIndexed ==
    Quiescent =>
        \A d \in Stores :
           /\ tables[d] \subseteq indexes[d]
           /\ \A row \in BagToSet(rows[d]) : row.tbl \in indexes[d]

\* ---------------------------------------------------- claims: incoming loop
\* The incoming loop is done with the frame of `routed`.
Handled == task["incoming"] \notin {"send_msg", "send_handshake"}

\* C19: a deserialized message of a connected sender is sent on msg_tx exactly
\* when it is no handshake, one of an unknown sender on handshake_tx exactly
\* when it is a handshake that carries a parameter, and never on the other
\* channel; a frame that does not deserialize is dropped and the loop goes on;
\* msg_tx carries no handshake and nothing of a sender that is not connected.
C19_RoutedToOneChannel ==
    /\ (routed.frame.valid /\ Handled) =>
          IF routed.known
          THEN /\ routed.to \in {"msg_tx", "none"}
               /\ routed.to = "msg_tx" <=> routed.frame.instruction # "Handshake"
          ELSE /\ routed.to \in {"handshake_tx", "none"}
               /\ routed.to = "handshake_tx" <=>
                     (routed.frame.instruction = "Handshake" /\ routed.frame.parameter)
    /\ routed.frame = Garbage => routed.to = "none" /\ task["incoming"] # "stopped"
    /\ \A i \in DOMAIN msg_ch :
          msg_ch[i].instruction # "Handshake" /\ msg_ch[i].sender \in peer_map
    /\ \A i \in DOMAIN handshake_ch :
          handshake_ch[i].instruction = "Handshake" /\ handshake_ch[i].parameter

\* A handshake of a connected peer has just been dropped while a message of a
\* connected peer is on its way on msg_tx.
C19_Witness ==
    /\ routed.frame.valid /\ Handled
    /\ routed.known
    /\ routed.frame.instruction = "Handshake"
    /\ routed.to = "none"
    /\ msg_ch # <<>>

\* C20: the incoming loop awaits no channel send while it holds the read lock
\* on the peer map, so no task that waits for the write lock waits behind a
\* pending send.
C20_NoSendUnderReadLock ==
    /\ task["incoming"] \in {"send_msg", "send_handshake"} => "incoming" \notin lock.readers
    /\ lock.waiting # {} =>
          ~("incoming" \in lock.readers /\ task["incoming"] \in {"send_msg", "send_handshake"})
====
